---------------------------- MODULE Spec2Model ----------------------------
(***************************************************************************)
(* A model of the statistical market-intelligence engine of ai_job_market: *)
(*   src/src/analysis/salary-analysis/salary_intelligence.py               *)
(*       SalaryIntelligenceAnalyzer.analyze_skill_premium                  *)
(*   src/src/analysis/skills-demand-analysis/skills_demand_analyzer.py     *)
(*       SkillsDemandAnalyzer.create_skill_correlation_matrix,             *)
(*       analyze_skill_cooccurrence, identify_high_value_skills,           *)
(*       analyze_talent_gap                                                *)
(*                                                                         *)
(* Numbers.  Python floats are modelled by exact rationals extended with   *)
(* the IEEE specials nan, inf and -inf (numpy's float64 division by zero   *)
(* yields those, it does not raise).  A value is a record                  *)
(*   [k |-> "num", n |-> numerator, d |-> denominator]  (reduced, d > 0)   *)
(*   [k |-> "nan", ...]   [k |-> "inf", n |-> 1 or -1, ...]                *)
(* so that equality of records is equality of values.                      *)
(***************************************************************************)
EXTENDS Integers, Sequences, FiniteSets, TLC

\* The largest number of rows of a dataset the model enumerates.
MaxRows == 5

VARIABLES
    df,       \* the dataset the analyzer holds (self.df / self.merged_data)
    stats,    \* TRUE iff the scipy.stats backend could be imported
    hvs,      \* a high-value-skills table handed to the row-level operations
    last,     \* the last call made on the object looked at and its result
    orchestrator,  \* a NotebookOrchestrator and the run_pipeline call on it
    manager,  \* the files in the directory of a CheckpointManager
    recent    \* history: for each checkpoint name its most recent save

vars == <<df, stats, hvs, last, orchestrator, manager, recent>>

\* The values of orchestrator, manager and recent where there is none.
NoOrchestrator == [pc |-> "none"]

NoManager == [pkl |-> <<>>, json |-> <<>>]

NoSaves == <<>>

tools == <<orchestrator, manager, recent>>

---------------------------------------------------------------------------
(* Extended rational arithmetic (IEEE float64 without rounding error).     *)

Abs(x) == IF x < 0 THEN -x ELSE x

Sign(x) == IF x < 0 THEN -1 ELSE IF x > 0 THEN 1 ELSE 0

RECURSIVE GCD(_, _)
GCD(a, b) == IF b = 0 THEN a ELSE GCD(b, a % b)

Rat(n, d) ==
    LET s == IF d < 0 THEN -1 ELSE 1
        g == GCD(Abs(n), Abs(d))
    IN  [k |-> "num", n |-> (s * n) \div g, d |-> (s * d) \div g]

Int2F(i) == [k |-> "num", n |-> i, d |-> 1]

NaN == [k |-> "nan", n |-> 0, d |-> 1]

Inf(s) == [k |-> "inf", n |-> s, d |-> 1]

IsNum(x) == x.k = "num"

IsNaN(x) == x.k = "nan"

NegF(x) == IF x.k = "nan" THEN NaN ELSE [x EXCEPT !.n = -x.n]

AddF(a, b) ==
    IF a.k = "nan" \/ b.k = "nan" THEN NaN
    ELSE IF a.k = "inf" /\ b.k = "inf" THEN (IF a.n = b.n THEN a ELSE NaN)
    ELSE IF a.k = "inf" THEN a
    ELSE IF b.k = "inf" THEN b
    ELSE Rat(a.n * b.d + b.n * a.d, a.d * b.d)

SubF(a, b) == AddF(a, NegF(b))

MulF(a, b) ==
    IF a.k = "nan" \/ b.k = "nan" THEN NaN
    ELSE IF a.k = "inf" \/ b.k = "inf"
         THEN (IF Sign(a.n) * Sign(b.n) = 0 THEN NaN
               ELSE Inf(Sign(a.n) * Sign(b.n)))
    ELSE Rat(a.n * b.n, a.d * b.d)

DivF(a, b) ==
    IF a.k = "nan" \/ b.k = "nan" THEN NaN
    ELSE IF a.k = "inf"
         THEN (IF b.k = "inf" THEN NaN
               ELSE Inf(a.n * (IF b.n < 0 THEN -1 ELSE 1)))
    ELSE IF b.k = "inf" THEN Int2F(0)
    ELSE IF b.n = 0 THEN (IF a.n = 0 THEN NaN ELSE Inf(Sign(a.n)))
    ELSE Rat(a.n * b.d, a.d * b.n)

\* a < b on floats: every comparison with nan is false.
LtF(a, b) ==
    /\ a.k # "nan" /\ b.k # "nan"
    /\ IF a.k = "inf" THEN a.n = -1 /\ ~(b.k = "inf" /\ b.n = -1)
       ELSE IF b.k = "inf" THEN b.n = 1
       ELSE a.n * b.d < b.n * a.d

GtF(a, b) == LtF(b, a)

LeF(a, b) == a.k # "nan" /\ b.k # "nan" /\ ~LtF(b, a)

GeF(a, b) == LeF(b, a)

\* round(x, 2): to the nearest hundredth, ties to even (numpy/pandas round).
Round2(x) ==
    IF x.k # "num" THEN x
    ELSE LET whole == x.n \div x.d
             part == x.n % x.d
             q == 100 * whole + (100 * part) \div x.d
             r == (100 * part) % x.d
             up == 2 * r > x.d \/ (2 * r = x.d /\ q % 2 = 1)
         IN  Rat(IF up THEN q + 1 ELSE q, 100)

---------------------------------------------------------------------------
(* The dataset: one row per job posting, with salary_avg and one 0/1       *)
(* indicator per skill column.  The analyses below only aggregate over     *)
(* rows (counts, sums, means), so datasets are enumerated up to the order  *)
(* of their rows.                                                          *)

\* skill_col.replace('skill_', '').replace('_', ' ').title()
SkillName(col) ==
    CASE col = "skill_python" -> "Python"
      [] col = "skill_sql" -> "Sql"
      [] col = "skill_aws" -> "Aws"
      [] col = "skill_power_bi" -> "Power Bi"
      [] col = "skill_pytorch" -> "Pytorch"
      [] col = "skill_r" -> "R"
      [] OTHER -> "Other"

\* The row of type t over the columns cols: its salary is sal[t \div 2^c + 1]
\* and the indicator of column i is bit i-1 of t.
RowOfType(cols, sal, t) ==
    [salary_avg |-> sal[(t \div (2 ^ Len(cols))) + 1],
     skill |-> [c \in {cols[i] : i \in 1..Len(cols)} |->
                  LET i == CHOOSE j \in 1..Len(cols) : cols[j] = c
                  IN  (t \div (2 ^ (i - 1))) % 2]]

RECURSIVE SortedIdx(_, _)
SortedIdx(n, T) ==
    IF n = 0 THEN {<<>>}
    ELSE UNION {{Append(s, t) :
                    t \in (IF Len(s) = 0 THEN 0 ELSE s[Len(s)])..(T - 1)} :
                s \in SortedIdx(n - 1, T)}

DatasetsUpTo(cols, sal, max) ==
    LET T == (2 ^ Len(cols)) * Len(sal)
    IN  {[columns |-> cols,
          rows |-> [i \in 1..Len(s) |-> RowOfType(cols, sal, s[i])]] :
         s \in UNION {SortedIdx(n, T) : n \in 0..max}}

Datasets(cols, sal) == DatasetsUpTo(cols, sal, MaxRows)

\* Two skills with salaries 0 and 3 (in thousands); one skill with salaries
\* whose t statistics fall next to the 5% critical value; three skills, of
\* one row less, with one salary.
InputDatasets ==
    Datasets(<<"skill_python", "skill_sql">>, <<0, 3>>)
      \cup Datasets(<<"skill_aws">>, <<0, 5, 8, 12>>)
      \cup DatasetsUpTo(<<"skill_python", "skill_sql", "skill_aws">>, <<3>>,
                        MaxRows - 1)

HasColumn(d, col) == \E i \in 1..Len(d.columns) : d.columns[i] = col

\* d[d[col] == v]['salary_avg']
SalaryWhere(d, col, v) ==
    LET Sel(r) == r.skill[col] = v
        sel == SelectSeq(d.rows, Sel)
    IN  [i \in 1..Len(sel) |-> sel[i].salary_avg]

RECURSIVE SumSeq(_)
SumSeq(s) == IF s = <<>> THEN 0 ELSE Head(s) + SumSeq(Tail(s))

RECURSIVE SumSq(_)
SumSq(s) == IF s = <<>> THEN 0 ELSE Head(s) * Head(s) + SumSq(Tail(s))

\* Series.mean(): nan on an empty series.
Mean(s) == IF Len(s) = 0 THEN NaN ELSE Rat(SumSeq(s), Len(s))

---------------------------------------------------------------------------
(* scipy.stats.ttest_ind(a, b): the two-sided p-value of the pooled        *)
(* (equal variance) two-sample t-test.  t^2 is a rational of the sample    *)
(* sums; p is a decreasing function of t^2 for a given number of degrees   *)
(* of freedom, not a rational.  A p-value is therefore modelled by the     *)
(* interval of the scale 0 .. 100000 (units of 0.00001) it lies in:        *)
(*   [lo |-> x, hi |-> x]        exactly x                                 *)
(*   [lo |-> x, hi |-> y], x<y   x <= p < y                                *)
(*   [lo |-> -1, hi |-> -1]      nan                                       *)
(* with the cut points 0.04995 (below it round(p, 4) < 0.05), 0.05 and 1.  *)

PV(lo, hi) == [lo |-> lo, hi |-> hi]

PNaN == PV(-1, -1)

POne == PV(100000, 100000)

PScale == 100000

\* The squared two-sided 5% critical value of Student's t, times PScale.
CritSq05(dof) ==
    CASE dof = 1 -> 16144764 [] dof = 2 -> 1851282 [] dof = 3 -> 1012796
      [] dof = 4 -> 770865 [] dof = 5 -> 660789 [] dof = 6 -> 598738
      [] dof = 7 -> 559145 [] dof = 8 -> 531766 [] dof = 9 -> 511736
      [] OTHER -> 496460

\* The squared two-sided 4.995% critical value of Student's t, times PScale.
CritSq04995(dof) ==
    CASE dof = 1 -> 16177235 [] dof = 2 -> 1853283 [] dof = 3 -> 1013626
      [] dof = 4 -> 771408 [] dof = 5 -> 661213 [] dof = 6 -> 599098
      [] dof = 7 -> 559467 [] dof = 8 -> 532061 [] dof = 9 -> 512012
      [] OTHER -> 496723

\* tn / td > c / PScale, for tn >= 0, td > 0.
RatioGt(tn, td, c) ==
    LET q == tn \div td
        r == tn % td
    IN  \/ q > c \div PScale
        \/ q = c \div PScale /\ r * PScale > (c % PScale) * td

TTestInd(a, b) ==
    LET n1 == Len(a)
        n2 == Len(b)
        dof == n1 + n2 - 2
        s1 == SumSeq(a)
        s2 == SumSeq(b)
        \* n * sum of squared deviations of each sample
        a1 == n1 * SumSq(a) - s1 * s1
        a2 == n2 * SumSq(b) - s2 * s2
        dm == s1 * n2 - s2 * n1
        tn == dof * dm * dm
        td == (n1 + n2) * (n2 * a1 + n1 * a2)
    IN  IF n1 = 0 \/ n2 = 0 \/ dof = 0 THEN PNaN
        ELSE IF td = 0 THEN (IF dm = 0 THEN PNaN ELSE PV(0, 0))
        ELSE IF tn = 0 THEN POne
        ELSE IF RatioGt(tn, td, CritSq04995(dof)) THEN PV(0, 4995)
        ELSE IF RatioGt(tn, td, CritSq05(dof)) THEN PV(4995, 5000)
        ELSE PV(5000, 100000)

M_PLess(p, alpha) ==
    /\ p.lo >= 0
    /\ IF p.lo = p.hi THEN p.lo <= alpha ELSE p.hi <= alpha

\* p_value < alpha, alpha in units of 0.00001 and not inside p's interval.
PLess(p, alpha) ==
    /\ p.lo >= 0
    /\ IF p.lo = p.hi THEN p.lo < alpha ELSE p.hi <= alpha

\* round(p_value, 4)
PRound4(p) == IF p = PV(4995, 5000) THEN PV(5000, 5000) ELSE p

---------------------------------------------------------------------------
(* DataFrame.sort_values(field, ascending=False), with the default          *)
(* kind='quicksort'.  The rows with a nan key are set aside and appended   *)
(* in their order; the others are reversed, argsorted by numpy's quicksort *)
(* and reversed again.  That sort is not stable (pandas documents only     *)
(* 'mergesort' and 'stable' as stable; numpy's quicksort partitions runs   *)
(* of more than 16 elements and is a vectorised network on AVX builds), so *)
(* the order of rows with equal keys is whatever the build produces: every *)
(* descending arrangement is an outcome.                                   *)

\* Row a has to come before row b.
SortsBefore(a, b, f) == GtF(a[f], b[f]) \/ (~IsNaN(a[f]) /\ IsNaN(b[f]))

\* The arrangements q of the row numbers that sort_values may return.
SortOrders(rows, f) ==
    {q \in Permutations(1..Len(rows)) :
        \A i, j \in 1..Len(rows) :
            i < j => /\ ~SortsBefore(rows[q[j]], rows[q[i]], f)
                     /\ (IsNaN(rows[q[i]][f]) /\ IsNaN(rows[q[j]][f]))
                           => q[i] < q[j]}

SortValues(rows, f) ==
    IF rows = <<>> THEN {<<>>}
    ELSE {[i \in 1..Len(rows) |-> rows[q[i]]] : q \in SortOrders(rows, f)}

---------------------------------------------------------------------------
(* SalaryIntelligenceAnalyzer.analyze_skill_premium                        *)

\* enums.get_skill_columns(): the default skill_columns
GetSkillColumns ==
    <<"skill_tensorflow", "skill_excel", "skill_pandas", "skill_fastapi",
      "skill_numpy", "skill_reinforcement_learning", "skill_azure",
      "skill_sql", "skill_hugging_face", "skill_keras", "skill_power_bi",
      "skill_aws", "skill_gcp", "skill_python", "skill_langchain",
      "skill_pytorch", "skill_scikit-learn", "skill_flask", "skill_cuda",
      "skill_r">>

\* premium = avg_with - avg_without
M_SalaryPremium(avg_with, avg_without) == SubF(avg_without, avg_with)

SalaryPremium(avg_with, avg_without) == SubF(avg_with, avg_without)

\* premium_pct = (premium / avg_without) * 100
PremiumPct(premium, avg_without) ==
    MulF(DivF(premium, avg_without), Int2F(100))

\* The p-value without scipy ("Default if scipy not available"): 0.05
DefaultPValue == PV(5000, 5000)

\* The dictionary of a column that passes both guards of the loop body.
SkillPremiumResult(d, st, col, alpha) ==
    LET with_skill == SalaryWhere(d, col, 1)
        without_skill == SalaryWhere(d, col, 0)
        avg_with == Mean(with_skill)
        avg_without == Mean(without_skill)
        premium == SalaryPremium(avg_with, avg_without)
        premium_pct == PremiumPct(premium, avg_without)
        p_value == IF st THEN TTestInd(with_skill, without_skill)
                   ELSE DefaultPValue
    IN  [skill_name |-> SkillName(col),
         avg_salary_with_skill |-> avg_with,
         avg_salary_without_skill |-> avg_without,
         salary_premium |-> premium,
         premium_percentage |-> premium_pct,
         count_with_skill |-> Len(with_skill),
         count_without_skill |-> Len(without_skill),
         p_value |-> p_value,
         is_significant |-> PLess(p_value, alpha)]

\* Whether the loop body reaches results.append for the column.
PremiumEmits(d, col) ==
    /\ HasColumn(d, col)
    /\ ~(Len(SalaryWhere(d, col, 1)) = 0 \/ Len(SalaryWhere(d, col, 0)) = 0)

RECURSIVE PremiumResults(_, _, _, _)
PremiumResults(d, st, skill_columns, alpha) ==
    IF skill_columns = <<>> THEN <<>>
    ELSE LET n == Len(skill_columns)
             before == PremiumResults(d, st, SubSeq(skill_columns, 1, n - 1),
                                      alpha)
         IN  IF PremiumEmits(d, skill_columns[n])
             THEN Append(before,
                         SkillPremiumResult(d, st, skill_columns[n], alpha))
             ELSE before

\* pd.DataFrame(results).sort_values('salary_premium', ascending=False):
\* a frame built from an empty list has no columns, and sorting it by a
\* column raises KeyError.
analyze_skill_premium(d, st, skill_columns, alpha) ==
    LET results == PremiumResults(d, st, skill_columns, alpha)
    IN  IF results = <<>> THEN {[status |-> "KeyError", rows |-> <<>>]}
        ELSE {[status |-> "ok", rows |-> sorted] :
                 sorted \in SortValues(results, "salary_premium")}

---------------------------------------------------------------------------
(* SkillsDemandAnalyzer.identify_high_value_skills                         *)

\* pd.cut(x, bins, labels): the label of the bin (bins[i], bins[i+1]] that
\* holds x (right-closed, the lowest edge excluded), "nan" when none does.
PdCut(x, bins, labels) ==
    IF \E i \in 1..Len(labels) :
           GtF(x, Int2F(bins[i])) /\ LeF(x, Int2F(bins[i + 1]))
    THEN labels[CHOOSE i \in 1..Len(labels) :
                    GtF(x, Int2F(bins[i])) /\ LeF(x, Int2F(bins[i + 1]))]
    ELSE "nan"

\* Series.max(): the largest value that is not nan, nan when there is none.
RECURSIVE SeriesMax(_)
SeriesMax(s) ==
    IF s = <<>> THEN NaN
    ELSE LET m == SeriesMax(Tail(s))
         IN  IF IsNaN(Head(s)) THEN m
             ELSE IF IsNaN(m) \/ GtF(Head(s), m) THEN Head(s)
             ELSE m

Column(rows, f) == [i \in 1..Len(rows) |-> rows[i][f]]

\* The dictionary appended to results for one skill column (the t_statistic
\* field, which nothing reads, is left out).
HighValueResult(d, col) ==
    LET with_skill == SalaryWhere(d, col, 1)
        without_skill == SalaryWhere(d, col, 0)
        overall_avg_salary == Mean(Column(d.rows, "salary_avg"))
        avg_salary_with == Mean(with_skill)
        avg_salary_without == Mean(without_skill)
        salary_premium == SubF(avg_salary_with, overall_avg_salary)
        premium_pct ==
            MulF(SubF(DivF(avg_salary_with, overall_avg_salary), Int2F(1)),
                 Int2F(100))
        p_value == TTestInd(with_skill, without_skill)
        demand_count == Len(with_skill)
        demand_pct == MulF(Rat(demand_count, Len(d.rows)), Int2F(100))
    IN  [skill_name |-> SkillName(col),
         avg_salary_with_skill |-> Round2(avg_salary_with),
         avg_salary_without_skill |-> Round2(avg_salary_without),
         salary_premium |-> Round2(salary_premium),
         premium_percentage |-> Round2(premium_pct),
         demand_count |-> demand_count,
         demand_percentage |-> Round2(demand_pct),
         p_value |-> PRound4(p_value),
         is_significant |-> PLess(p_value, 5000)]

M_HighValueEmits(d, col) ==
    ~(Len(SalaryWhere(d, col, 1)) = 0 \/ Len(SalaryWhere(d, col, 0)) = 0)

\* Whether the loop body reaches results.append for the column.
HighValueEmits(d, col) ==
    ~(Len(SalaryWhere(d, col, 1)) < 2 \/ Len(SalaryWhere(d, col, 0)) < 2)

RECURSIVE HighValueResults(_, _)
HighValueResults(d, skill_columns) ==
    IF skill_columns = <<>> THEN <<>>
    ELSE LET n == Len(skill_columns)
             before == HighValueResults(d, SubSeq(skill_columns, 1, n - 1))
         IN  IF HighValueEmits(d, skill_columns[n])
             THEN Append(before, HighValueResult(d, skill_columns[n]))
             ELSE before

\* df['value_score'] of one row, given the two column maxima.
ValueScore(r, max_premium, max_demand) ==
    Round2(MulF(AddF(MulF(DivF(r.premium_percentage, max_premium), Rat(1, 2)),
                     MulF(DivF(r.demand_percentage, max_demand), Rat(1, 2))),
                Int2F(100)))

ValueTier(score) ==
    PdCut(score, <<0, 33, 66, 100>>, <<"Standard", "High-Value", "Premium">>)

\* The "if not df.empty" block: score, sort by score, tier.
ScoreAndTier(results) ==
    IF results = <<>> THEN {<<>>}
    ELSE LET max_premium == SeriesMax(Column(results, "premium_percentage"))
             max_demand == SeriesMax(Column(results, "demand_percentage"))
             scored == [i \in 1..Len(results) |->
                          [skill_name |-> results[i].skill_name,
                           avg_salary_with_skill |->
                               results[i].avg_salary_with_skill,
                           avg_salary_without_skill |->
                               results[i].avg_salary_without_skill,
                           salary_premium |-> results[i].salary_premium,
                           premium_percentage |->
                               results[i].premium_percentage,
                           demand_count |-> results[i].demand_count,
                           demand_percentage |-> results[i].demand_percentage,
                           p_value |-> results[i].p_value,
                           is_significant |-> results[i].is_significant,
                           value_score |->
                               ValueScore(results[i], max_premium, max_demand)]]
         IN  {[i \in 1..Len(sorted) |->
                [skill_name |-> sorted[i].skill_name,
                 avg_salary_with_skill |-> sorted[i].avg_salary_with_skill,
                 avg_salary_without_skill |->
                     sorted[i].avg_salary_without_skill,
                 salary_premium |-> sorted[i].salary_premium,
                 premium_percentage |-> sorted[i].premium_percentage,
                 demand_count |-> sorted[i].demand_count,
                 demand_percentage |-> sorted[i].demand_percentage,
                 p_value |-> sorted[i].p_value,
                 is_significant |-> sorted[i].is_significant,
                 value_score |-> sorted[i].value_score,
                 value_tier |-> ValueTier(sorted[i].value_score)]] :
              sorted \in SortValues(scored, "value_score")}

\* The module imports scipy.stats unconditionally (line 11): without the
\* backend the import of the module raises and no method can be called.
identify_high_value_skills(d, st) ==
    IF ~st THEN {[status |-> "ImportError", rows |-> <<>>]}
    ELSE {[status |-> "ok", rows |-> rows] :
             rows \in ScoreAndTier(HighValueResults(d, d.columns))}

---------------------------------------------------------------------------
(* SkillsDemandAnalyzer.analyze_talent_gap                                 *)

\* The four boolean masks.
M_IsCritical(r) ==
    /\ GeF(r.demand_percentage, Int2F(20))
    /\ GtF(r.premium_percentage, Int2F(10))
    /\ r.is_significant

IsCritical(r) ==
    /\ GtF(r.demand_percentage, Int2F(20))
    /\ GtF(r.premium_percentage, Int2F(10))
    /\ r.is_significant

M_IsEmerging(r) ==
    /\ GtF(r.demand_percentage, Int2F(10)) /\ LtF(r.demand_percentage, Int2F(20))
    /\ GtF(r.premium_percentage, Int2F(20))
    /\ r.is_significant

IsEmerging(r) ==
    /\ GeF(r.demand_percentage, Int2F(10)) /\ LeF(r.demand_percentage, Int2F(20))
    /\ GtF(r.premium_percentage, Int2F(20))
    /\ r.is_significant

IsOversupplied(r) ==
    /\ GtF(r.demand_percentage, Int2F(20))
    /\ LtF(r.premium_percentage, Int2F(5))

IsUndervalued(r) ==
    /\ LtF(r.demand_percentage, Int2F(15))
    /\ GtF(r.premium_percentage, Int2F(15))
    /\ r.is_significant

\* The categories of a table with rows: each a filtered copy, in table order.
TalentGap(high_value_skills) ==
    [status |-> "ok",
     critical_skills |-> SelectSeq(high_value_skills, IsCritical),
     emerging_opportunities |-> SelectSeq(high_value_skills, IsEmerging),
     oversupplied_skills |-> SelectSeq(high_value_skills, IsOversupplied),
     undervalued_gems |-> SelectSeq(high_value_skills, IsUndervalued)]

NoTalentGap(status) ==
    [status |-> status,
     critical_skills |-> <<>>, emerging_opportunities |-> <<>>,
     oversupplied_skills |-> <<>>, undervalued_gems |-> <<>>]

\* An empty table has no columns: high_value_skills['demand_percentage']
\* raises KeyError.
analyze_talent_gap(d, st) ==
    {IF high_value_skills.status # "ok"
     THEN NoTalentGap(high_value_skills.status)
     ELSE IF high_value_skills.rows = <<>> THEN NoTalentGap("KeyError")
     ELSE TalentGap(high_value_skills.rows) :
        high_value_skills \in identify_high_value_skills(d, st)}

---------------------------------------------------------------------------
(* SkillsDemandAnalyzer.generate_skill_recommendations                     *)

\* str.lower(), on the names in use
Lower(name) ==
    CASE name = "Python" -> "python"
      [] name = "PYTHON" -> "python"
      [] name = "Sql" -> "sql"
      [] name = "SQL" -> "sql"
      [] name = "Aws" -> "aws"
      [] OTHER -> name

M_IsCurrentSkill(skill_name, current_skills) ==
    \E i \in 1..Len(current_skills) : skill_name = current_skills[i]

\* high_value_skills['skill_name'].str.lower().isin(current_skills_clean)
IsCurrentSkill(skill_name, current_skills) ==
    \E i \in 1..Len(current_skills) :
        Lower(skill_name) = Lower(current_skills[i])

\* recommendations['priority']
Priority(score) ==
    PdCut(score, <<0, 50, 75, 100>>, <<"Medium", "High", "Critical">>)

\* recommendations['learning_roi']
LearningRoi(r) ==
    Round2(DivF(MulF(r.premium_percentage, r.demand_percentage), Int2F(100)))

Recommendation(r) ==
    [skill_name |-> r.skill_name,
     avg_salary_with_skill |-> r.avg_salary_with_skill,
     avg_salary_without_skill |-> r.avg_salary_without_skill,
     salary_premium |-> r.salary_premium,
     premium_percentage |-> r.premium_percentage,
     demand_count |-> r.demand_count,
     demand_percentage |-> r.demand_percentage,
     p_value |-> r.p_value,
     is_significant |-> r.is_significant,
     value_score |-> r.value_score,
     value_tier |-> r.value_tier,
     priority |-> Priority(r.value_score),
     learning_roi |-> LearningRoi(r)]

\* sort_values(['value_score', 'learning_roi'], ascending=[False, False]):
\* with two keys pandas sorts by np.lexsort, which is stable; a nan key
\* goes last.
KeyBefore(x, y) == GtF(x, y) \/ (~IsNaN(x) /\ IsNaN(y))

RecommendedBefore(a, b) ==
    \/ KeyBefore(a.value_score, b.value_score)
    \/ /\ a.value_score = b.value_score
       /\ KeyBefore(a.learning_roi, b.learning_roi)

RECURSIVE InsertRecommendation(_, _)
InsertRecommendation(sorted, r) ==
    IF sorted = <<>> THEN <<r>>
    ELSE IF RecommendedBefore(r, Head(sorted)) THEN <<r>> \o sorted
    ELSE <<Head(sorted)>> \o InsertRecommendation(Tail(sorted), r)

RECURSIVE SortRecommendations(_)
SortRecommendations(rows) ==
    IF rows = <<>> THEN <<>>
    ELSE InsertRecommendation(
             SortRecommendations(SubSeq(rows, 1, Len(rows) - 1)),
             rows[Len(rows)])

\* Lines 386-417 on a table with rows; current_skills = <<>> stands for
\* None and for the empty list.
Recommendations(high_value_skills, current_skills) ==
    LET NotCurrent(r) == ~IsCurrentSkill(r.skill_name, current_skills)
        Significant(r) == r.is_significant
        kept == SelectSeq(SelectSeq(high_value_skills, NotCurrent),
                          Significant)
    IN  [status |-> "ok",
         rows |-> SortRecommendations(
                      [i \in 1..Len(kept) |-> Recommendation(kept[i])])]

\* An empty table has no columns: high_value_skills['skill_name'] (or
\* ['is_significant']) raises KeyError.
generate_skill_recommendations(d, st, current_skills) ==
    {IF high_value_skills.status # "ok"
     THEN [status |-> high_value_skills.status, rows |-> <<>>]
     ELSE IF high_value_skills.rows = <<>>
     THEN [status |-> "KeyError", rows |-> <<>>]
     ELSE Recommendations(high_value_skills.rows, current_skills) :
        high_value_skills \in identify_high_value_skills(d, st)}

---------------------------------------------------------------------------
(* SkillsDemandAnalyzer.create_skill_correlation_matrix and                *)
(* analyze_skill_cooccurrence.  A Pearson correlation r is the quotient of *)
(* an integer by a square root; it is modelled by its signed square        *)
(* r * |r|, a rational and a strictly increasing function of r, so that    *)
(* every comparison of correlations is the comparison of signed squares.   *)

SignedSquare(x) == MulF(x, IF LtF(x, Int2F(0)) THEN NegF(x) ELSE x)

M_Correlation(d, c1, c2) ==
    LET n == Len(d.rows)
        x == [i \in 1..n |-> d.rows[i].skill[c1]]
        y == [i \in 1..n |-> d.rows[i].skill[c2]]
        sxy == SumSeq([i \in 1..n |-> x[i] * y[i]])
        cov == n * sxy - SumSeq(x) * SumSeq(y)
        vx == n * SumSq(x) - SumSeq(x) * SumSeq(x)
        vy == n * SumSq(y) - SumSeq(y) * SumSeq(y)
    IN  IF vx * vy = 0 THEN Int2F(0)
        ELSE Rat(Sign(cov) * cov * cov, vx * vy)

\* DataFrame.corr() entry of two columns: nan when either has no variance.
Correlation(d, c1, c2) ==
    LET n == Len(d.rows)
        x == [i \in 1..n |-> d.rows[i].skill[c1]]
        y == [i \in 1..n |-> d.rows[i].skill[c2]]
        sxy == SumSeq([i \in 1..n |-> x[i] * y[i]])
        cov == n * sxy - SumSeq(x) * SumSeq(y)
        vx == n * SumSq(x) - SumSeq(x) * SumSeq(x)
        vy == n * SumSq(y) - SumSeq(y) * SumSeq(y)
    IN  IF vx * vy = 0 THEN NaN
        ELSE Rat(Sign(cov) * cov * cov, vx * vy)

\* corr_matrix.iloc[i, j] for the skill columns in dataset order
create_skill_correlation_matrix(d) ==
    [i \in 1..Len(d.columns) |->
        [j \in 1..Len(d.columns) |-> Correlation(d, d.columns[i], d.columns[j])]]

M_KeepsPair(c, min_correlation) ==
    GeF(IF LtF(c, Int2F(0)) THEN NegF(c) ELSE c, SignedSquare(min_correlation))

\* The threshold tests of the loop body, on a correlation c.
KeepsPair(c, min_correlation) == GeF(c, SignedSquare(min_correlation))

M_Strength(c) ==
    IF GeF(c, SignedSquare(Rat(3, 10))) THEN "Strong" ELSE "Moderate"

\* 'Strong' if correlation >= 0.6 else 'Moderate'
Strength(c) ==
    IF GeF(c, SignedSquare(Rat(6, 10))) THEN "Strong" ELSE "Moderate"

\* The pairs appended for row i of the matrix, columns j = from .. n.
RECURSIVE PairsOfRow(_, _, _, _, _)
PairsOfRow(d, m, i, from, min_correlation) ==
    IF from > Len(d.columns) THEN <<>>
    ELSE (IF KeepsPair(m[i][from], min_correlation)
          THEN <<[skill_1 |-> SkillName(d.columns[i]),
                  skill_2 |-> SkillName(d.columns[from]),
                  correlation |-> m[i][from],
                  strength |-> Strength(m[i][from])]>>
          ELSE <<>>)
         \o PairsOfRow(d, m, i, from + 1, min_correlation)

RECURSIVE M_PairsFrom(_, _, _, _)
M_PairsFrom(d, m, i, min_correlation) ==
    IF i > Len(d.columns) THEN <<>>
    ELSE PairsOfRow(d, m, i, i, min_correlation)
           \o M_PairsFrom(d, m, i + 1, min_correlation)

\* for i in range(n): for j in range(i + 1, n)
RECURSIVE PairsFrom(_, _, _, _)
PairsFrom(d, m, i, min_correlation) ==
    IF i > Len(d.columns) THEN <<>>
    ELSE PairsOfRow(d, m, i, i + 1, min_correlation)
           \o PairsFrom(d, m, i + 1, min_correlation)

analyze_skill_cooccurrence(d, st, min_correlation) ==
    IF ~st THEN {[status |-> "ImportError", rows |-> <<>>]}
    ELSE LET skill_pairs ==
                 PairsFrom(d, create_skill_correlation_matrix(d), 1,
                           min_correlation)
         IN  {[status |-> "ok", rows |-> sorted] :
                 sorted \in SortValues(skill_pairs, "correlation")}

---------------------------------------------------------------------------
(* The analyzer as a state machine: a dataset is loaded at construction,   *)
(* then any analysis may be called, any number of times, in any order.     *)
(* last holds the call being looked at and what it returned; the caller    *)
(* drops it (Return) before the next call.                                 *)

\* The significance levels passed as alpha: 0.05 (the default) and 1.0.
Alphas == {5000, 100000}

\* The lists passed as skill_columns (the last is the default, None).
SkillColumnInputs ==
    {<<"skill_python", "skill_sql">>, <<"skill_sql", "skill_python">>,
     <<"skill_power_bi", "skill_aws">>, GetSkillColumns}

\* The thresholds passed as min_correlation: 0.3 (the default), 0.6 and 0.
MinCorrelations == {Rat(3, 10), Rat(6, 10), Int2F(0)}

\* The lists passed as current_skills (the first stands for None).
CurrentSkillInputs == {<<>>, <<"PYTHON">>, <<"sql", "Python">>}

NoCall == [op |-> "none", args |-> <<>>, out |-> [status |-> "none"]]

Init ==
    /\ df \in InputDatasets
    /\ stats \in BOOLEAN
    /\ hvs = <<>>
    /\ last = NoCall
    /\ orchestrator = NoOrchestrator
    /\ manager = NoManager
    /\ recent = NoSaves

AnalyzeSkillPremium ==
    \E skill_columns \in SkillColumnInputs, alpha \in Alphas :
      \E out \in analyze_skill_premium(df, stats, skill_columns, alpha) :
        /\ last = NoCall
        /\ last' = [op |-> "analyze_skill_premium",
                    args |-> <<skill_columns, alpha>>,
                    out |-> out]
        /\ UNCHANGED <<df, stats, hvs, tools>>

IdentifyHighValueSkills ==
    \E out \in identify_high_value_skills(df, stats) :
        /\ last = NoCall
        /\ last' = [op |-> "identify_high_value_skills",
                    args |-> <<>>,
                    out |-> out]
        /\ UNCHANGED <<df, stats, hvs, tools>>

AnalyzeTalentGap ==
    \E out \in analyze_talent_gap(df, stats) :
        /\ last = NoCall
        /\ last' = [op |-> "analyze_talent_gap", args |-> <<>>, out |-> out]
        /\ UNCHANGED <<df, stats, hvs, tools>>

AnalyzeSkillCooccurrence ==
    \E min_correlation \in MinCorrelations :
      \E out \in analyze_skill_cooccurrence(df, stats, min_correlation) :
        /\ last = NoCall
        /\ last' = [op |-> "analyze_skill_cooccurrence",
                    args |-> <<min_correlation>>,
                    out |-> out]
        /\ UNCHANGED <<df, stats, hvs, tools>>

GenerateSkillRecommendations ==
    \E current_skills \in CurrentSkillInputs :
      \E out \in generate_skill_recommendations(df, stats, current_skills) :
        /\ last = NoCall
        /\ last' = [op |-> "generate_skill_recommendations",
                    args |-> <<current_skills>>,
                    out |-> out]
        /\ UNCHANGED <<df, stats, hvs, tools>>

Return ==
    /\ last # NoCall
    /\ last' = NoCall
    /\ UNCHANGED <<df, stats, hvs, tools>>

Next ==
    \/ Return
    \/ AnalyzeSkillPremium
    \/ IdentifyHighValueSkills
    \/ AnalyzeTalentGap
    \/ AnalyzeSkillCooccurrence
    \/ GenerateSkillRecommendations

Spec == Init /\ [][Next]_vars

---------------------------------------------------------------------------
(* The talent-gap rules on tables that small datasets cannot produce: a    *)
(* demand below 20% needs a skill held by two rows of more than ten.  The  *)
(* tables below are those identify_high_value_skills returns on datasets   *)
(* of 10000 rows with an overall mean salary of 100: a skill with demand   *)
(* dem and premium prem (both in hundredths of a percent) is held by dem   *)
(* rows whose mean salary is 100 + prem / 100.                             *)

GapDemands == {999, 1000, 1499, 1500, 2000, 2001, 2500}

GapPremiums == {-500, 499, 500, 1000, 1001, 1200, 1500, 1501, 2000, 2001}

GapResult(col, dem, prem, sig) ==
    [skill_name |-> SkillName(col),
     avg_salary_with_skill |-> Rat(10000 + prem, 100),
     avg_salary_without_skill |->
         Round2(Rat(100 * 10000 * 100 - (10000 + prem) * dem,
                    100 * (10000 - dem))),
     salary_premium |-> Rat(prem, 100),
     premium_percentage |-> Rat(prem, 100),
     demand_count |-> dem,
     demand_percentage |-> Rat(dem, 100),
     p_value |-> IF sig THEN PV(0, 4995) ELSE PV(5000, 100000),
     is_significant |-> sig]

GapResults(col) ==
    {GapResult(col, dem, prem, sig) :
        dem \in GapDemands, prem \in GapPremiums, sig \in BOOLEAN}

\* One skill, or that skill and one of a few others beside it.
GapTables ==
    UNION {ScoreAndTier(<<r>>) : r \in GapResults("skill_python")}
      \cup UNION {ScoreAndTier(<<r, q>>) :
               r \in GapResults("skill_python"),
               q \in {GapResult("skill_sql", 2500, 1200, TRUE),
                      GapResult("skill_sql", 1200, 2500, TRUE),
                      GapResult("skill_sql", 2500, 400, FALSE),
                      GapResult("skill_sql", 2000, 2000, TRUE)}}

NoDataset == [columns |-> <<>>, rows |-> <<>>]

InitGap ==
    /\ df = NoDataset
    /\ stats = TRUE
    /\ hvs \in GapTables
    /\ last = NoCall
    /\ orchestrator = NoOrchestrator
    /\ manager = NoManager
    /\ recent = NoSaves

\* Lines 330-362 of analyze_talent_gap on the table hvs.
ClassifyTalentGap ==
    /\ last = NoCall
    /\ last' = [op |-> "talent_gap", args |-> <<>>, out |-> TalentGap(hvs)]
    /\ UNCHANGED <<df, stats, hvs, tools>>

\* Lines 386-417 of generate_skill_recommendations on the table hvs.
RecommendFromTable ==
    \E current_skills \in CurrentSkillInputs :
        /\ last = NoCall
        /\ last' = [op |-> "recommendations",
                    args |-> <<current_skills>>,
                    out |-> Recommendations(hvs, current_skills)]
        /\ UNCHANGED <<df, stats, hvs, tools>>

NextGap ==
    \/ Return
    \/ ClassifyTalentGap
    \/ RecommendFromTable

SpecGap == InitGap /\ [][NextGap]_vars

---------------------------------------------------------------------------
(* SalaryIntelligenceAnalyzer from its construction on.  The master frame  *)
(* handed to the constructor is what the enrichment step makes of the job  *)
(* postings: SkillsEnricher.parse_skills turns the comma-separated         *)
(* skills_required string of a posting into one indicator per skill and    *)
(* into skills_count.  A frame is a record                                 *)
(*   [columns |-> the skill_ columns, in frame order,                      *)
(*    other   |-> the other columns, in frame order,                       *)
(*    rows    |-> one record per posting]                                  *)
(* and a column added by an analysis is appended to other and becomes a    *)
(* field of every row.                                                     *)

\* The largest number of postings of a master frame.
MaxPostings == 2

\* The skills_required strings, as the lists of their items ("Go" is a
\* skill that none of the skill columns stands for).
SkillsRequired ==
    {<<"Python">>, <<"Python", "SQL">>, <<"SQL", "Python">>,
     <<"PyTorch">>, <<"PyTorch", "R">>, <<"Go">>}

PostingSalaries == {0, 3}

\* str.contains(item, case=False) on one item of the string: the item
\* itself, or an item that holds it as a substring ("r" is in "pytorch").
ItemContains(text_item, item) ==
    text_item = item \/ (item = "R" /\ text_item = "PyTorch")

\* helpers.create_binary_features: item found anywhere in the string
BinaryFeature(skills_required, item) ==
    IF \E i \in 1..Len(skills_required) :
           ItemContains(skills_required[i], item)
    THEN 1 ELSE 0

\* SkillsEnricher.parse_skills on one posting: the skill_ indicators and
\* skills_count = the number of comma-separated items.
ParseSkills(skills_required) ==
    [skill |-> [skill_python |-> BinaryFeature(skills_required, "Python"),
                skill_sql |-> BinaryFeature(skills_required, "SQL"),
                skill_pytorch |-> BinaryFeature(skills_required, "PyTorch"),
                skill_r |-> BinaryFeature(skills_required, "R")],
     skills_count |-> Len(skills_required)]

PostingRow(skills_required, salary) ==
    [salary_avg |-> salary,
     skill |-> ParseSkills(skills_required).skill,
     skills_count |-> ParseSkills(skills_required).skills_count]

\* The frames passed as master_df, of one posting or more: the skill columns
\* in either order, and the required columns salary_avg and job_id present
\* or not.
MasterFrames ==
    {[columns |-> cols, other |-> other,
      rows |-> [i \in 1..Len(p) |-> PostingRow(p[i][1], p[i][2])]] :
        cols \in {<<"skill_python", "skill_pytorch", "skill_r", "skill_sql">>,
                  <<"skill_sql", "skill_r", "skill_pytorch", "skill_python">>},
        other \in {<<"job_id", "salary_avg", "skills_count">>,
                   <<"job_id", "skills_count">>,
                   <<"salary_avg", "skills_count">>,
                   <<"skills_count">>},
        p \in UNION {[1..n -> SkillsRequired \X PostingSalaries] :
                        n \in 1..MaxPostings}}

\* col in self.df.columns, for any column of a frame
InFrame(d, col) ==
    HasColumn(d, col) \/ \E i \in 1..Len(d.other) : d.other[i] = col

M_validate_required_columns(d) ==
    LET Missing(col) == col = "salary_avg" /\ ~InFrame(d, col)
    IN  SelectSeq(<<"salary_avg", "job_id">>, Missing)

\* _validate_required_columns: the list named by the ValueError it raises,
\* empty when it returns.
validate_required_columns(d) ==
    LET Missing(col) == ~InFrame(d, col)
    IN  SelectSeq(<<"salary_avg", "job_id">>, Missing)

\* self.df[name] = values: a new column goes last, an old one is replaced.
WithColumn(d, name, values) ==
    [columns |-> d.columns,
     other |-> IF InFrame(d, name) THEN d.other ELSE Append(d.other, name),
     rows |-> [i \in 1..Len(d.rows) |-> (name :> values[i]) @@ d.rows[i]]]

\* col.replace('skill_', '')
StripSkill(col) ==
    CASE col = "skill_python" -> "python"
      [] col = "skill_sql" -> "sql"
      [] col = "skill_pytorch" -> "pytorch"
      [] col = "skill_r" -> "r"
      [] col = "skill_aws" -> "aws"
      [] OTHER -> "other"

\* ','.join(names): a string is the sequence of its names and commas.
RECURSIVE Join(_)
Join(names) ==
    IF names = <<>> THEN <<>>
    ELSE IF Len(names) = 1 THEN names
    ELSE <<Head(names), ",">> \o Join(Tail(names))

\* available_skills: the columns get_skill_columns() lists, in its order,
\* that the frame has.
AvailableSkills(d) ==
    LET Available(col) == InFrame(d, col)
    IN  SelectSeq(GetSkillColumns, Available)

\* The lambda applied to each row: the names of the available skills whose
\* indicator is 1, in the order of available_skills, joined by commas.
SkillSignature(available_skills, row) ==
    LET Active(col) == row.skill[col] = 1
        active == SelectSeq(available_skills, Active)
    IN  Join([i \in 1..Len(active) |-> StripSkill(active[i])])

\* The frame after self.df['skill_signature'] = ...
WithSkillSignature(d) ==
    WithColumn(d, "skill_signature",
               [i \in 1..Len(d.rows) |->
                   SkillSignature(AvailableSkills(d), d.rows[i])])

\* The values of a sequence, each once, in the order of first appearance.
RECURSIVE Unique(_)
Unique(seq) ==
    IF seq = <<>> THEN <<>>
    ELSE LET before == Unique(SubSeq(seq, 1, Len(seq) - 1))
             x == seq[Len(seq)]
         IN  IF \E i \in 1..Len(before) : before[i] = x THEN before
             ELSE Append(before, x)

RECURSIVE SortInts(_)
SortInts(seq) ==
    IF seq = <<>> THEN <<>>
    ELSE LET rest == SortInts(Tail(seq))
             Le(x) == x <= Head(seq)
             Gt(x) == x > Head(seq)
         IN  SelectSeq(rest, Le) \o <<Head(seq)>> \o SelectSeq(rest, Gt)

\* Series.median() of a series of integers with a value or more
Median(seq) ==
    LET sorted == SortInts(seq)
        n == Len(seq)
    IN  IF n % 2 = 1 THEN Int2F(sorted[(n + 1) \div 2])
        ELSE Rat(sorted[n \div 2] + sorted[n \div 2 + 1], 2)

\* One row of groupby('skill_signature').agg(...): mean, median and count
\* of salary_avg and the skills_count of the first row of the group.
ComboGroup(d, signature) ==
    LET InGroup(row) == row.skill_signature = signature
        group == SelectSeq(d.rows, InGroup)
        salaries == [i \in 1..Len(group) |-> group[i].salary_avg]
    IN  [skill_combination |-> signature,
         mean_salary |-> Mean(salaries),
         median_salary |-> Median(salaries),
         count |-> Len(group),
         num_skills |-> group[1].skills_count]

\* combo_analysis['salary_per_skill'] = mean_salary / num_skills
WithSalaryPerSkill(g) ==
    [skill_combination |-> g.skill_combination,
     mean_salary |-> g.mean_salary,
     median_salary |-> g.median_salary,
     count |-> g.count,
     num_skills |-> g.num_skills,
     salary_per_skill |-> DivF(g.mean_salary, Int2F(g.num_skills))]

M_KeepsCombination(count, min_count) == count > min_count

\* combo_analysis['count'] >= min_count
KeepsCombination(count, min_count) == count >= min_count

\* analyze_skill_combinations on the frame that has the signature column:
\* the groups with min_count rows or more, sorted by mean_salary.  (The
\* groups come out of groupby in the order of their keys; the order before
\* the sort is of no consequence here, since no mean_salary is nan and
\* SortValues gives every arrangement of equal ones.)
analyze_skill_combinations(d, min_count) ==
    LET signatures ==
            Unique([i \in 1..Len(d.rows) |-> d.rows[i].skill_signature])
        combo_analysis ==
            [i \in 1..Len(signatures) |-> ComboGroup(d, signatures[i])]
        Kept(g) == KeepsCombination(g.count, min_count)
        kept == SelectSeq(combo_analysis, Kept)
        scored == [i \in 1..Len(kept) |-> WithSalaryPerSkill(kept[i])]
    IN  {[status |-> "ok", rows |-> sorted] :
            sorted \in SortValues(scored, "mean_salary")}

RECURSIVE SumF(_)
SumF(seq) == IF seq = <<>> THEN Int2F(0) ELSE AddF(Head(seq), SumF(Tail(seq)))

\* The frame after lines 336-340 of analyze_salary_per_skill.
WithSalaryPerSkillColumn(d) ==
    IF ~InFrame(d, "salary_per_skill") /\ InFrame(d, "skills_count")
    THEN WithColumn(d, "salary_per_skill",
                    [i \in 1..Len(d.rows) |->
                        DivF(Int2F(d.rows[i].salary_avg),
                             Int2F(d.rows[i].skills_count))])
    ELSE d

\* analyze_salary_per_skill on the frame after lines 336-340: of the
\* statistics of the column, the mean and the count (the frames here have
\* no experience_level and no industry column).
analyze_salary_per_skill(d) ==
    IF ~InFrame(d, "salary_per_skill")
    THEN [status |-> "KeyError"]
    ELSE LET column == [i \in 1..Len(d.rows) |-> d.rows[i].salary_per_skill]
         IN  [status |-> "ok",
              overall_stats |->
                  [mean |-> DivF(SumF(column), Int2F(Len(column))),
                   count |-> Len(column)],
              by_experience |-> "None",
              by_industry |-> "None"]

\* The thresholds passed as min_count (the default is 10; the report asks 5).
MinCounts == {1, 2}

InitAnalyzer ==
    /\ df = NoDataset
    /\ stats = TRUE
    /\ hvs = <<>>
    /\ last = NoCall
    /\ orchestrator = NoOrchestrator
    /\ manager = NoManager
    /\ recent = NoSaves

\* SalaryIntelligenceAnalyzer(master_df): the analyzer exists, holding a
\* copy of the frame, only if the validation does not raise.
Construct ==
    \E master_df \in MasterFrames :
        LET missing == validate_required_columns(master_df)
        IN  /\ df = NoDataset
            /\ last = NoCall
            /\ df' = IF missing = <<>> THEN master_df ELSE NoDataset
            /\ last' = [op |-> "__init__",
                        args |-> <<master_df>>,
                        out |-> IF missing = <<>>
                                THEN [status |-> "ok", missing |-> missing]
                                ELSE [status |-> "ValueError",
                                      missing |-> missing]]
            /\ UNCHANGED <<stats, hvs, tools>>

AnalyzeSkillCombinations ==
    /\ df # NoDataset
    /\ last = NoCall
    /\ \E min_count \in MinCounts :
         \E out \in analyze_skill_combinations(WithSkillSignature(df),
                                               min_count) :
            /\ df' = WithSkillSignature(df)
            /\ last' = [op |-> "analyze_skill_combinations",
                        args |-> <<min_count>>,
                        out |-> out]
    /\ UNCHANGED <<stats, hvs, tools>>

AnalyzeSalaryPerSkill ==
    /\ df # NoDataset
    /\ last = NoCall
    /\ df' = WithSalaryPerSkillColumn(df)
    /\ last' = [op |-> "analyze_salary_per_skill",
                args |-> <<>>,
                out |-> analyze_salary_per_skill(WithSalaryPerSkillColumn(df))]
    /\ UNCHANGED <<stats, hvs, tools>>

\* analyze_skill_premium with the default skill list, on the held frame.
AnalyzeDefaultSkillPremium ==
    /\ df # NoDataset
    /\ last = NoCall
    /\ \E out \in analyze_skill_premium(df, stats, GetSkillColumns, 5000) :
          last' = [op |-> "analyze_skill_premium",
                   args |-> <<GetSkillColumns, 5000>>,
                   out |-> out]
    /\ UNCHANGED <<df, stats, hvs, tools>>

NextAnalyzer ==
    \/ Construct
    \/ Return
    \/ AnalyzeSkillCombinations
    \/ AnalyzeSalaryPerSkill
    \/ AnalyzeDefaultSkillPremium

SpecAnalyzer == InitAnalyzer /\ [][NextAnalyzer]_vars

---------------------------------------------------------------------------
(* NotebookOrchestrator.run_pipeline (run_pipeline.py). The notebooks are  *)
(* run by papermill or nbconvert, outside the program: what a run gives is *)
(* any of the outcomes execute_notebook can return. The loop of            *)
(* run_pipeline is taken one iteration at a time; orchestrator.pc is the   *)
(* position of the call.                                                   *)

\* The largest number of notebooks in a pipeline configuration.
MaxNotebooks == 3

\* The notebooks named in configurations; the last is not in notebooks_dir.
NotebookNames == {"cleaning.ipynb", "exploration.ipynb", "missing.ipynb"}

NotebooksDir == {"cleaning.ipynb", "exploration.ipynb"}

PipelineConfigs ==
    UNION {[1..n -> [notebook : NotebookNames]] : n \in 0..MaxNotebooks}

\* What execute_notebook returns (success, message), without the times.
execute_notebook(notebook_name, papermill) ==
    IF notebook_name \notin NotebooksDir
    THEN {[success |-> FALSE, message |-> "Notebook not found"]}
    ELSE IF papermill
    THEN {[success |-> TRUE, message |-> "Completed successfully"],
          [success |-> FALSE, message |-> "Error"]}
    ELSE {[success |-> TRUE, message |-> "Completed successfully"],
          [success |-> FALSE, message |-> "Execution failed"],
          [success |-> FALSE, message |-> "Execution timeout"],
          [success |-> FALSE, message |-> "Error"]}

M_StopsPipeline(success, stop_on_error) == FALSE

\* The break of the loop.
StopsPipeline(success, stop_on_error) == ~success /\ stop_on_error

NoReport == [total_notebooks |-> 0, successful |-> 0, failed |-> 0,
             stop_on_error |-> TRUE, execution_log |-> <<>>]

\* NotebookOrchestrator(): execution_log = [].
NewOrchestrator ==
    [pc |-> "idle", pipeline_config |-> <<>>, stop_on_error |-> TRUE,
     idx |-> 0, total_notebooks |-> 0, successful |-> 0, failed |-> 0,
     execution_log |-> <<>>, report |-> NoReport]

InitPipeline ==
    /\ df = NoDataset
    /\ stats = TRUE
    /\ hvs = <<>>
    /\ last = NoCall
    /\ orchestrator = NewOrchestrator
    /\ manager = NoManager
    /\ recent = NoSaves

\* run_pipeline(pipeline_config, stop_on_error) is called: lines 178-191.
RunPipeline ==
    /\ orchestrator.pc \in {"idle", "done"}
    /\ \E pipeline_config \in PipelineConfigs, stop_on_error \in BOOLEAN :
          orchestrator' =
              [pc |-> "loop", pipeline_config |-> pipeline_config,
               stop_on_error |-> stop_on_error, idx |-> 0,
               total_notebooks |-> Len(pipeline_config),
               successful |-> 0, failed |-> 0,
               execution_log |-> <<>>, report |-> NoReport]
    /\ UNCHANGED <<df, stats, hvs, last, manager, recent>>

\* One iteration of the loop: lines 193-225.
ProcessNotebook ==
    /\ orchestrator.pc = "loop"
    /\ orchestrator.idx < Len(orchestrator.pipeline_config)
    /\ LET idx == orchestrator.idx + 1
           notebook_name == orchestrator.pipeline_config[idx].notebook
       IN  \E papermill \in BOOLEAN :
             \E result \in execute_notebook(notebook_name, papermill) :
               LET log_entry == [notebook |-> notebook_name,
                                 success |-> result.success,
                                 message |-> result.message,
                                 index |-> idx]
               IN  orchestrator' =
                     [orchestrator EXCEPT
                        !.idx = idx,
                        !.execution_log = Append(@, log_entry),
                        !.successful = IF result.success THEN @ + 1 ELSE @,
                        !.failed = IF result.success THEN @ ELSE @ + 1,
                        !.pc = IF StopsPipeline(result.success,
                                                orchestrator.stop_on_error)
                               THEN "report" ELSE "loop"]
    /\ UNCHANGED <<df, stats, hvs, last, manager, recent>>

\* After the loop, the report is made and returned: lines 227-251.
ReturnReport ==
    /\ \/ orchestrator.pc = "report"
       \/ /\ orchestrator.pc = "loop"
          /\ orchestrator.idx = Len(orchestrator.pipeline_config)
    /\ orchestrator' =
          [orchestrator EXCEPT
             !.pc = "done",
             !.report = [total_notebooks |-> orchestrator.total_notebooks,
                         successful |-> orchestrator.successful,
                         failed |-> orchestrator.failed,
                         stop_on_error |-> orchestrator.stop_on_error,
                         execution_log |-> orchestrator.execution_log]]
    /\ UNCHANGED <<df, stats, hvs, last, manager, recent>>

NextPipeline ==
    \/ RunPipeline
    \/ ProcessNotebook
    \/ ReturnReport

SpecPipeline == InitPipeline /\ [][NextPipeline]_vars

---------------------------------------------------------------------------
(* CheckpointManager (src/utils/notebook_helpers.py): the files of the     *)
(* checkpoint directory, <name>.pkl and <name>_metadata.json.              *)

CheckpointNames == {"cleaned", "enriched"}

\* The DataFrames saved, by number; 0 in manager.pkl is a file not there.
Frames == {1, 2}

\* A metadata dict is the set of its entries, each value by its text.
Entry(key, type, value) == [key |-> key, type |-> type, value |-> value]

NoMetadata == [given |-> FALSE, dict |-> {}]

\* The metadata arguments: None, {}, and two dicts, one holding a datetime.
Metadatas ==
    {NoMetadata,
     [given |-> TRUE, dict |-> {}],
     [given |-> TRUE, dict |-> {Entry("rows", "int", "100")}],
     [given |-> TRUE, dict |-> {Entry("rows", "int", "200"),
                                Entry("saved_at", "datetime", "2024-01-01")}]}

\* json.dump(metadata, f, default=str) and json.load(f) of what was
\* written: a value json cannot hold comes back as its string.
JsonRoundTrip(dict) ==
    {Entry(e.key, IF e.type \in {"int", "str"} THEN e.type ELSE "str",
           e.value) : e \in dict}

NoJson == [exists |-> FALSE, dict |-> {}]

\* if metadata: (None and {} are false)
WritesMetadata(metadata) == metadata.given /\ metadata.dict # {}

NotSaved == [saved |-> FALSE, data |-> 0, metadata |-> NoMetadata]

\* CheckpointManager(checkpoint_dir), on a directory without files.
InitCheckpoint ==
    /\ df = NoDataset
    /\ stats = TRUE
    /\ hvs = <<>>
    /\ last = NoCall
    /\ orchestrator = NoOrchestrator
    /\ manager = [pkl |-> [n \in CheckpointNames |-> 0],
                  json |-> [n \in CheckpointNames |-> NoJson]]
    /\ recent = [n \in CheckpointNames |-> NotSaved]

SaveCheckpoint ==
    /\ last = NoCall
    /\ \E data \in Frames, checkpoint_name \in CheckpointNames,
          metadata \in Metadatas :
          /\ manager' =
               [pkl |-> [manager.pkl EXCEPT ![checkpoint_name] = data],
                json |-> IF WritesMetadata(metadata)
                         THEN [manager.json EXCEPT ![checkpoint_name] =
                                  [exists |-> TRUE,
                                   dict |-> JsonRoundTrip(metadata.dict)]]
                         ELSE manager.json]
          /\ recent' = [recent EXCEPT ![checkpoint_name] =
                           [saved |-> TRUE, data |-> data,
                            metadata |-> metadata]]
          /\ last' = [op |-> "save_checkpoint",
                      args |-> <<data, checkpoint_name, metadata>>,
                      out |-> [status |-> "ok", file |-> checkpoint_name]]
    /\ UNCHANGED <<df, stats, hvs, orchestrator>>

\* What load_checkpoint returns or raises, on the files of m.
load_checkpoint(m, checkpoint_name, load_metadata) ==
    IF m.pkl[checkpoint_name] = 0
    THEN [status |-> "FileNotFoundError", data |-> 0,
          with_metadata |-> FALSE, metadata |-> {}]
    ELSE IF load_metadata
    THEN [status |-> "ok", data |-> m.pkl[checkpoint_name],
          with_metadata |-> TRUE,
          metadata |-> IF m.json[checkpoint_name].exists
                       THEN m.json[checkpoint_name].dict
                       ELSE {}]
    ELSE [status |-> "ok", data |-> m.pkl[checkpoint_name],
          with_metadata |-> FALSE, metadata |-> {}]

LoadCheckpoint ==
    /\ last = NoCall
    /\ \E checkpoint_name \in CheckpointNames, load_metadata \in BOOLEAN :
          last' = [op |-> "load_checkpoint",
                   args |-> <<checkpoint_name, load_metadata>>,
                   out |-> load_checkpoint(manager, checkpoint_name,
                                           load_metadata)]
    /\ UNCHANGED <<df, stats, hvs, orchestrator, manager, recent>>

ClearCheckpoint ==
    /\ last = NoCall
    /\ \E checkpoint_name \in CheckpointNames :
          /\ manager' =
               [pkl |-> [manager.pkl EXCEPT ![checkpoint_name] = 0],
                json |-> [manager.json EXCEPT ![checkpoint_name] = NoJson]]
          /\ last' = [op |-> "clear_checkpoint",
                      args |-> <<checkpoint_name>>,
                      out |-> [status |-> "ok",
                               deleted |-> manager.pkl[checkpoint_name] # 0]]
    /\ UNCHANGED <<df, stats, hvs, orchestrator, recent>>

NextCheckpoint ==
    \/ SaveCheckpoint
    \/ LoadCheckpoint
    \/ ClearCheckpoint
    \/ Return

SpecCheckpoint == InitCheckpoint /\ [][NextCheckpoint]_vars

---------------------------------------------------------------------------
(* Properties.  The sums and counts below are taken over sets of row       *)
(* numbers of df, apart from the operators the analyses use.               *)

RowsWhere(d, col, v) == {i \in 1..Len(d.rows) : d.rows[i].skill[col] = v}

RECURSIVE SalarySum(_, _)
SalarySum(d, S) ==
    IF S = {} THEN 0
    ELSE LET i == CHOOSE j \in S : TRUE
         IN  d.rows[i].salary_avg + SalarySum(d, S \ {i})

ColumnSet(d) == {d.columns[i] : i \in 1..Len(d.columns)}

ColumnNamed(d, name) == CHOOSE c \in ColumnSet(d) : SkillName(c) = name

\* x is the mean salary of the rows S of d.
IsMeanOf(x, d, S) ==
    IsNum(x) /\ S # {} /\ x.n * Cardinality(S) = SalarySum(d, S) * x.d

PremiumCall == last.op = "analyze_skill_premium"

HighValueCall == last.op = "identify_high_value_skills"

CooccurrenceCall == last.op = "analyze_skill_cooccurrence"

OutRows == last.out.rows

\* C1: every row of analyze_skill_premium carries the mean salary of the
\* rows with and of the rows without the skill, salary_premium is their
\* difference exactly, and premium_percentage is salary_premium /
\* avg_salary_without_skill * 100 (not a finite number when that mean is 0).
Thm_C1_PremiumIsDifferenceOfMeans ==
    PremiumCall =>
        \A i \in 1..Len(OutRows) :
            LET r == OutRows[i]
                col == ColumnNamed(df, r.skill_name)
                w == r.avg_salary_with_skill
                o == r.avg_salary_without_skill
                pr == r.salary_premium
                pct == r.premium_percentage
            IN  /\ IsMeanOf(w, df, RowsWhere(df, col, 1))
                /\ IsMeanOf(o, df, RowsWhere(df, col, 0))
                /\ IsNum(pr)
                /\ pr.n * w.d * o.d = pr.d * (w.n * o.d - o.n * w.d)
                /\ IF o.n # 0
                   THEN /\ IsNum(pct)
                        /\ pct.n * o.n * pr.d = 100 * pr.n * pct.d * o.d
                   ELSE ~IsNum(pct)

Wit_C1_TwoRowsWithPremium ==
    /\ PremiumCall
    /\ Len(OutRows) = 2
    /\ \E i \in 1..2 :
          /\ OutRows[i].salary_premium.n > 0
          /\ OutRows[i].salary_premium.d > 1
          /\ IsNum(OutRows[i].premium_percentage)
    /\ \E i \in 1..2 : OutRows[i].salary_premium.n < 0

\* C2: in every row of analyze_skill_premium (alpha as passed) and of
\* identify_high_value_skills (alpha 0.05), is_significant is true iff the
\* p_value of that row is below alpha.
Cex_C2_SignificantIffReportedPBelowAlpha ==
    /\ PremiumCall =>
          \A i \in 1..Len(OutRows) :
              OutRows[i].is_significant
                  <=> PLess(OutRows[i].p_value, last.args[2])
    /\ HighValueCall =>
          \A i \in 1..Len(OutRows) :
              OutRows[i].is_significant <=> PLess(OutRows[i].p_value, 5000)

\* C3: without a statistics backend every skill result has p_value 1.0 and
\* is not significant, whatever alpha, and every analysis still returns.
Cex_C3_NoBackendNeverSignificant ==
    ~stats =>
        /\ last.out.status # "ImportError"
        /\ PremiumCall =>
              \A i \in 1..Len(OutRows) :
                  OutRows[i].p_value = POne /\ ~OutRows[i].is_significant

\* C4 as claimed: with alpha = 1.0 every row of analyze_skill_premium is
\* significant.
Cex_C4_AlphaOneAllSignificant ==
    (PremiumCall /\ last.args[2] = 100000) =>
        \A i \in 1..Len(OutRows) : OutRows[i].is_significant

\* C4 as amended: with alpha = 1.0 a row of analyze_skill_premium is
\* significant iff its p_value is defined and below 1.0; a row whose p_value
\* is 1.0 (the test ran and the two group means are equal) or undefined is
\* not significant.
Thm_C4_AlphaOneSignificantIffPBelowOne ==
    (PremiumCall /\ last.args[2] = 100000) =>
        \A i \in 1..Len(OutRows) :
            LET r == OutRows[i]
            IN  /\ r.is_significant
                    <=> (r.p_value # PNaN /\ r.p_value # POne)
                /\ (stats /\ r.avg_salary_with_skill
                              = r.avg_salary_without_skill)
                       => ~r.is_significant

Wit_C4_AlphaOneMixedRows ==
    /\ PremiumCall /\ last.args[2] = 100000
    /\ Len(OutRows) = 2
    /\ \E i, j \in 1..2 :
          /\ OutRows[i].p_value = POne /\ ~OutRows[i].is_significant
          /\ OutRows[j].p_value = PV(5000, 100000) /\ OutRows[j].is_significant

\* The without-skill mean salary of the column is not 0.
WithoutMeanNonzero(d, col) ==
    RowsWhere(d, col, 0) = {} \/ SalarySum(d, RowsWhere(d, col, 0)) # 0

Emitted(col) == \E i \in 1..Len(OutRows) : OutRows[i].skill_name = SkillName(col)

InputColumns == {last.args[1][i] : i \in 1..Len(last.args[1])}

\* C5 as claimed: for a column of the dataset whose without-skill mean is
\* not 0, both analyze_skill_premium and identify_high_value_skills emit a
\* row iff both partitions are non-empty.
Cex_C5_EmittedIffBothPartitionsNonEmpty ==
    /\ PremiumCall =>
          \A col \in InputColumns \cap ColumnSet(df) :
              WithoutMeanNonzero(df, col) =>
                  (Emitted(col) <=> (RowsWhere(df, col, 1) # {}
                                       /\ RowsWhere(df, col, 0) # {}))
    /\ (HighValueCall /\ last.out.status = "ok") =>
          \A col \in ColumnSet(df) :
              WithoutMeanNonzero(df, col) =>
                  (Emitted(col) <=> (RowsWhere(df, col, 1) # {}
                                       /\ RowsWhere(df, col, 0) # {}))

\* C5 as amended: for such a column analyze_skill_premium emits a row iff
\* both partitions are non-empty, and identify_high_value_skills (when it
\* returns) emits a row iff both partitions hold at least two rows: a skill
\* held by exactly one row is reported by the first and not by the second.
Thm_C5_EmittedIffPartitionsLargeEnough ==
    /\ PremiumCall =>
          \A col \in InputColumns \cap ColumnSet(df) :
              WithoutMeanNonzero(df, col) =>
                  (Emitted(col) <=> (RowsWhere(df, col, 1) # {}
                                       /\ RowsWhere(df, col, 0) # {}))
    /\ (HighValueCall /\ last.out.status = "ok") =>
          \A col \in ColumnSet(df) :
              WithoutMeanNonzero(df, col) =>
                  (Emitted(col)
                     <=> (Cardinality(RowsWhere(df, col, 1)) >= 2
                            /\ Cardinality(RowsWhere(df, col, 0)) >= 2))

Wit_C5_SkillOfOneRowNotReported ==
    /\ HighValueCall /\ last.out.status = "ok"
    /\ df.columns = <<"skill_python", "skill_sql">>
    /\ Cardinality(RowsWhere(df, "skill_python", 1)) = 1
    /\ Cardinality(RowsWhere(df, "skill_python", 0)) >= 2
    /\ WithoutMeanNonzero(df, "skill_python")
    /\ ~Emitted("skill_python")
    /\ Emitted("skill_sql")

\* C6: no row of analyze_skill_premium has a without-skill mean of 0, so
\* every premium_percentage is a finite number.
Cex_C6_NoRowWhenWithoutMeanIsZero ==
    PremiumCall =>
        \A i \in 1..Len(OutRows) :
            /\ OutRows[i].avg_salary_without_skill # Int2F(0)
            /\ IsNum(OutRows[i].premium_percentage)

Above(x, t) == IsNum(x) /\ x.n > t * x.d

Below(x, t) == IsNum(x) /\ x.n < t * x.d

Holds(table, r) == \E i \in 1..Len(table) : table[i] = r

\* C7: a row of the high-value table is in a talent-gap category exactly
\* when it satisfies the rule of the category, and the categories hold rows
\* of the table only; a row with demand 25, premium 12 and a significant
\* test is a critical skill and not an oversupplied one.
Thm_C7_CategoriesFollowTheirRules ==
    last.op = "talent_gap" =>
        /\ \A i \in 1..Len(hvs) :
              LET r == hvs[i]
                  dem == r.demand_percentage
                  prem == r.premium_percentage
              IN  /\ Holds(last.out.critical_skills, r)
                      <=> (Above(dem, 20) /\ Above(prem, 10)
                             /\ r.is_significant)
                  /\ Holds(last.out.emerging_opportunities, r)
                      <=> (~Below(dem, 10) /\ ~Above(dem, 20) /\ IsNum(dem)
                             /\ Above(prem, 20) /\ r.is_significant)
                  /\ Holds(last.out.oversupplied_skills, r)
                      <=> (Above(dem, 20) /\ Below(prem, 5))
                  /\ Holds(last.out.undervalued_gems, r)
                      <=> (Below(dem, 15) /\ Above(prem, 15)
                             /\ r.is_significant)
                  /\ (dem = Int2F(25) /\ prem = Int2F(12) /\ r.is_significant)
                        => /\ Holds(last.out.critical_skills, r)
                           /\ ~Holds(last.out.oversupplied_skills, r)
        /\ \A c \in {last.out.critical_skills, last.out.emerging_opportunities,
                     last.out.oversupplied_skills, last.out.undervalued_gems} :
              \A i \in 1..Len(c) : Holds(hvs, c[i])

Wit_C7_EveryCategoryFilled ==
    /\ last.op = "talent_gap"
    /\ Len(hvs) = 2
    /\ \E i \in 1..2 :
          /\ hvs[i].demand_percentage = Int2F(25)
          /\ hvs[i].premium_percentage = Int2F(12)
          /\ hvs[i].is_significant
          /\ Holds(last.out.critical_skills, hvs[i])
    /\ \E i \in 1..2 :
          /\ hvs[i].demand_percentage = Int2F(10)
          /\ Holds(last.out.emerging_opportunities, hvs[i])
          /\ Holds(last.out.undervalued_gems, hvs[i])

\* C8: every value_score that identify_high_value_skills computes (a
\* finite number) lies in 0 .. 100, negative premiums included.
Cex_C8_ValueScoreWithinZeroAndHundred ==
    HighValueCall =>
        \A i \in 1..Len(OutRows) :
            IsNum(OutRows[i].value_score) =>
                /\ ~Below(OutRows[i].value_score, 0)
                /\ ~Above(OutRows[i].value_score, 100)

\* C9: a row whose value_score lies in 0 .. 100 is Standard below 33,
\* High-Value from 33 and below 66, Premium from 66.
Cex_C9_TierOfScoreLeftClosed ==
    HighValueCall =>
        \A i \in 1..Len(OutRows) :
            LET sc == OutRows[i].value_score
            IN  (IsNum(sc) /\ ~Below(sc, 0) /\ ~Above(sc, 100)) =>
                    OutRows[i].value_tier =
                        (IF Below(sc, 33) THEN "Standard"
                         ELSE IF Below(sc, 66) THEN "High-Value"
                         ELSE "Premium")

\* The covariance and the product of the variances of two indicator
\* columns, both times n^2, from the counts of rows.
PairCov(d, c1, c2) ==
    Len(d.rows) * Cardinality(RowsWhere(d, c1, 1) \cap RowsWhere(d, c2, 1))
      - Cardinality(RowsWhere(d, c1, 1)) * Cardinality(RowsWhere(d, c2, 1))

PairVar(d, c1, c2) ==
    Cardinality(RowsWhere(d, c1, 1)) * Cardinality(RowsWhere(d, c1, 0))
      * Cardinality(RowsWhere(d, c2, 1)) * Cardinality(RowsWhere(d, c2, 0))

\* |correlation| >= m, for a rational m >= 0
AbsCorrAtLeast(d, c1, c2, m) ==
    /\ PairVar(d, c1, c2) > 0
    /\ PairCov(d, c1, c2) * PairCov(d, c1, c2) * m.d * m.d
         >= m.n * m.n * PairVar(d, c1, c2)

\* correlation >= m, for a rational m >= 0
CorrAtLeast(d, c1, c2, m) ==
    PairCov(d, c1, c2) >= 0 /\ AbsCorrAtLeast(d, c1, c2, m)

PairEmitted(c1, c2) ==
    \E k \in 1..Len(OutRows) :
        OutRows[k].skill_1 = SkillName(c1) /\ OutRows[k].skill_2 = SkillName(c2)

ColumnPairs(d) ==
    {<<i, j>> \in (1..Len(d.columns)) \X (1..Len(d.columns)) : i < j}

\* C10 as claimed: the result holds exactly the pairs of columns i < j whose
\* absolute correlation is at least min_correlation.
Cex_C10_PairsByAbsoluteCorrelation ==
    (CooccurrenceCall /\ last.out.status = "ok") =>
        \A ij \in ColumnPairs(df) :
            PairEmitted(df.columns[ij[1]], df.columns[ij[2]])
                <=> AbsCorrAtLeast(df, df.columns[ij[1]], df.columns[ij[2]],
                                   last.args[1])

\* C10 as amended: the result holds exactly the pairs of columns i < j whose
\* correlation is defined and at least min_correlation; a pair with a
\* correlation of -min_correlation or less is dropped.
Thm_C10_PairsBySignedCorrelation ==
    (CooccurrenceCall /\ last.out.status = "ok") =>
        /\ \A ij \in ColumnPairs(df) :
              PairEmitted(df.columns[ij[1]], df.columns[ij[2]])
                  <=> CorrAtLeast(df, df.columns[ij[1]], df.columns[ij[2]],
                                  last.args[1])
        /\ Len(OutRows) =
              Cardinality({ij \in ColumnPairs(df) :
                              CorrAtLeast(df, df.columns[ij[1]],
                                          df.columns[ij[2]], last.args[1])})

Wit_C10_NegativePairDropped ==
    /\ CooccurrenceCall /\ last.out.status = "ok"
    /\ last.args[1] = Rat(3, 10)
    /\ df.columns = <<"skill_python", "skill_sql">>
    /\ PairCov(df, "skill_python", "skill_sql") < 0
    /\ AbsCorrAtLeast(df, "skill_python", "skill_sql", Rat(3, 10))
    /\ OutRows = <<>>

\* A column whose indicator is the same in every row (or that has no row).
ZeroVariance(d, col) == RowsWhere(d, col, 1) = {} \/ RowsWhere(d, col, 0) = {}

\* C11: a skill column with zero variance has an undefined (nan) correlation
\* with every skill column, and no pair holding that skill is in the result
\* of analyze_skill_cooccurrence, whatever min_correlation is.
Thm_C11_ZeroVarianceSkillInNoPair ==
    (CooccurrenceCall /\ last.out.status = "ok") =>
        \A i \in 1..Len(df.columns) :
            ZeroVariance(df, df.columns[i]) =>
                /\ \A j \in 1..Len(df.columns) :
                      /\ IsNaN(create_skill_correlation_matrix(df)[i][j])
                      /\ IsNaN(create_skill_correlation_matrix(df)[j][i])
                /\ \A k \in 1..Len(OutRows) :
                      /\ OutRows[k].skill_1 # SkillName(df.columns[i])
                      /\ OutRows[k].skill_2 # SkillName(df.columns[i])

Wit_C11_ConstantSkillBesideVaryingOne ==
    /\ CooccurrenceCall /\ last.out.status = "ok"
    /\ last.args[1] = Int2F(0)
    /\ df.columns = <<"skill_python", "skill_sql">>
    /\ Len(df.rows) >= 3
    /\ RowsWhere(df, "skill_python", 0) = {}
    /\ RowsWhere(df, "skill_sql", 0) # {}
    /\ RowsWhere(df, "skill_sql", 1) # {}
    /\ OutRows = <<>>

\* C12 as claimed: with the backend present, analyze_skill_premium and
\* analyze_talent_gap return normally on every dataset and skill list, the
\* result having no row when every skill is skipped.
Cex_C12_SkippedSkillsNeverRaise ==
    (stats /\ last.op \in {"analyze_skill_premium", "analyze_talent_gap"}) =>
        last.out.status = "ok"

\* The place of the skill called name in the list cols.
PlaceIn(cols, name) == CHOOSE k \in 1..Len(cols) : SkillName(cols[k]) = name

\* C16 as claimed: the rows of analyze_skill_premium are in descending order
\* of salary_premium, and rows with equal salary_premium are in the order
\* of their skills in skill_columns.
Cex_C16_SortedByPremiumTiesInInputOrder ==
    (PremiumCall /\ last.out.status = "ok") =>
        \A i, j \in 1..Len(OutRows) :
            i < j =>
                /\ GeF(OutRows[i].salary_premium, OutRows[j].salary_premium)
                /\ OutRows[i].salary_premium = OutRows[j].salary_premium
                     => PlaceIn(last.args[1], OutRows[i].skill_name)
                          < PlaceIn(last.args[1], OutRows[j].skill_name)

\* C15 as claimed: every row of identify_high_value_skills has (to the cent)
\* salary_premium = avg_with - avg_without, premium_percentage =
\* salary_premium / avg_without * 100 when avg_without is not 0, and
\* demand_percentage = count_with / total_rows * 100.
Cex_C15_HighValuePremiumAgainstWithout ==
    (HighValueCall /\ last.out.status = "ok") =>
        \A i \in 1..Len(OutRows) :
            LET r == OutRows[i]
                col == ColumnNamed(df, r.skill_name)
                avg_with == Mean(SalaryWhere(df, col, 1))
                avg_without == Mean(SalaryWhere(df, col, 0))
                premium == SubF(avg_with, avg_without)
            IN  /\ r.salary_premium = Round2(premium)
                /\ avg_without # Int2F(0) =>
                      r.premium_percentage =
                          Round2(MulF(DivF(premium, avg_without), Int2F(100)))
                /\ r.demand_percentage =
                      Round2(Rat(100 * Cardinality(RowsWhere(df, col, 1)),
                                 Len(df.rows)))

\* The largest number of the column f of the result (nan when it has none).
MaxOf(f) == SeriesMax(Column(OutRows, f))

\* C17 as claimed: in a result of identify_high_value_skills with a row, a
\* row that holds the maximum premium_percentage has (to two decimals)
\* value_score = 50 + 50 * demand_percentage / maximum demand_percentage.
Cex_C17_TopPremiumScoresFiftyPlusDemand ==
    (HighValueCall /\ last.out.status = "ok" /\ Len(OutRows) > 0
       /\ IsNum(MaxOf("premium_percentage"))) =>
        \A i \in 1..Len(OutRows) :
            OutRows[i].premium_percentage = MaxOf("premium_percentage") =>
                OutRows[i].value_score =
                    Round2(AddF(Int2F(50),
                                MulF(Int2F(50),
                                     DivF(OutRows[i].demand_percentage,
                                          MaxOf("demand_percentage")))))

\* C18 as claimed: when the maximum premium_percentage or the maximum
\* demand_percentage of the result is 0, every row has a finite value_score.
Cex_C18_ZeroMaximumGivesFiniteScore ==
    (HighValueCall /\ last.out.status = "ok"
       /\ (MaxOf("premium_percentage") = Int2F(0)
             \/ MaxOf("demand_percentage") = Int2F(0))) =>
        \A i \in 1..Len(OutRows) : IsNum(OutRows[i].value_score)

Range(seq) == {seq[i] : i \in 1..Len(seq)}

CombinationsCall == last.op = "analyze_skill_combinations"

\* C13: constructing the analyzer on a frame that lacks salary_avg or job_id
\* raises an error that names exactly the missing ones and leaves no
\* analyzer behind; so an analyzer that exists, and any analysis call, has a
\* frame with both columns.
Thm_C13_MissingRequiredColumnsFailConstruction ==
    /\ last.op = "__init__" =>
          LET given == last.args[1]
              absent == {"salary_avg", "job_id"}
                           \ (Range(given.columns) \cup Range(given.other))
          IN  IF absent = {}
              THEN last.out.status = "ok" /\ df = given
              ELSE /\ last.out.status = "ValueError"
                   /\ Range(last.out.missing) = absent
                   /\ df = NoDataset
    /\ df # NoDataset => {"salary_avg", "job_id"} \subseteq Range(df.other)
    /\ last.op \in {"analyze_skill_combinations", "analyze_salary_per_skill",
                    "analyze_skill_premium"} => df # NoDataset

Wit_C13_FrameWithoutJobIdRejected ==
    /\ last.op = "__init__"
    /\ last.out.status = "ValueError"
    /\ last.out.missing = <<"job_id">>
    /\ Len(last.args[1].rows) = MaxPostings
    /\ df = NoDataset

\* C14 as claimed: no analysis operation changes the dataset the analyzer
\* holds: once constructed, the held frame stays what it is.
Cex_C14_AnalysesLeaveDatasetUnchanged == [][df # NoDataset => df' = df]_vars

\* The skill names in alphabetical order.
SortedSkillNames ==
    <<"aws", "azure", "cuda", "excel", "fastapi", "flask", "gcp",
      "hugging_face", "keras", "langchain", "numpy", "pandas", "power_bi",
      "python", "pytorch", "r", "reinforcement_learning", "scikit-learn",
      "sql", "tensorflow">>

\* The names of the skills whose indicator is 1 in the row.
ActiveSkills(d, row) ==
    {StripSkill(d.columns[i]) :
        i \in {j \in 1..Len(d.columns) : row.skill[d.columns[j]] = 1}}

\* C19 as claimed: the signature of every row is the comma-joined list, in
\* sorted order, of the names of its active skills, and rows with the same
\* active skills have the same signature.
Cex_C19_SignatureIsSortedJoin ==
    CombinationsCall =>
        /\ \A i \in 1..Len(df.rows) :
              LET Active(name) == name \in ActiveSkills(df, df.rows[i])
              IN  df.rows[i].skill_signature =
                      Join(SelectSeq(SortedSkillNames, Active))
        /\ \A i, j \in 1..Len(df.rows) :
              ActiveSkills(df, df.rows[i]) = ActiveSkills(df, df.rows[j])
                  => df.rows[i].skill_signature = df.rows[j].skill_signature

\* The number of names in a signature.
NamesIn(signature) == (Len(signature) + 1) \div 2

\* C20 as claimed: in every row of analyze_skill_combinations, num_skills is
\* the number of skills of the signature, which is the number of indicators
\* equal to 1 in each row of the group.
Cex_C20_NumSkillsCountsSignature ==
    (CombinationsCall /\ last.out.status = "ok") =>
        \A k \in 1..Len(OutRows) :
            /\ OutRows[k].num_skills = NamesIn(OutRows[k].skill_combination)
            /\ \A i \in 1..Len(df.rows) :
                  df.rows[i].skill_signature = OutRows[k].skill_combination
                      => OutRows[k].num_skills =
                             Cardinality(ActiveSkills(df, df.rows[i]))

\* C21 as claimed: analyze_skill_combinations emits no row for the empty
\* signature, and salary_per_skill is a finite number in every emitted row.
Cex_C21_NoRowForEmptySignature ==
    (CombinationsCall /\ last.out.status = "ok") =>
        \A k \in 1..Len(OutRows) :
            /\ OutRows[k].skill_combination # <<>>
            /\ IsNum(OutRows[k].salary_per_skill)

\* The rows of the held frame that carry the signature.
RowsWithSignature(signature) ==
    {i \in 1..Len(df.rows) : df.rows[i].skill_signature = signature}

\* C22: analyze_skill_combinations(min_count) emits a signature, once, if
\* and only if it occurs in min_count rows or more, whatever the salaries,
\* and the emitted rows are in descending order of mean_salary.
Thm_C22_EmittedIffCountReachesMinCount ==
    (CombinationsCall /\ last.out.status = "ok") =>
        /\ \A i \in 1..Len(df.rows) :
              (\E k \in 1..Len(OutRows) :
                  OutRows[k].skill_combination = df.rows[i].skill_signature)
                <=> Cardinality(RowsWithSignature(df.rows[i].skill_signature))
                        >= last.args[1]
        /\ \A k \in 1..Len(OutRows) :
              /\ OutRows[k].count =
                     Cardinality(RowsWithSignature(OutRows[k].skill_combination))
              /\ OutRows[k].count >= last.args[1]
              /\ \A m \in 1..Len(OutRows) :
                    /\ k < m => GeF(OutRows[k].mean_salary,
                                    OutRows[m].mean_salary)
                    /\ k # m => OutRows[k].skill_combination
                                    # OutRows[m].skill_combination

Wit_C22_RareSignaturesDroppedDespiteSalary ==
    /\ CombinationsCall /\ last.out.status = "ok"
    /\ last.args[1] = 2
    /\ Len(df.rows) = 2
    /\ df.rows[1].skill_signature # df.rows[2].skill_signature
    /\ df.rows[1].salary_avg = 3
    /\ OutRows = <<>>


RecommendationsCall == last.op = "recommendations"

\* C23: in the rows of generate_skill_recommendations the priority is Medium
\* for 0 <= value_score < 50, High for 50 <= value_score < 75 and Critical
\* for 75 <= value_score <= 100, and every row has a priority.
Cex_C23_PriorityOfScoreLeftClosed ==
    RecommendationsCall =>
        \A i \in 1..Len(OutRows) :
            LET sc == OutRows[i].value_score
            IN  /\ OutRows[i].priority \in {"Medium", "High", "Critical"}
                /\ (IsNum(sc) /\ ~Below(sc, 0) /\ ~Above(sc, 100)) =>
                       OutRows[i].priority =
                           (IF Below(sc, 50) THEN "Medium"
                            ELSE IF Below(sc, 75) THEN "High"
                            ELSE "Critical")


\* Two names that differ in the case of their letters only.
SameIgnoringCase(a, b) ==
    \/ a = b
    \/ \E names \in {{"Python", "PYTHON", "python"}, {"Sql", "SQL", "sql"}} :
           a \in names /\ b \in names

\* The rows of the table hvs that are significant and not already known.
Recommendable(current_skills) ==
    {i \in 1..Len(hvs) :
        /\ hvs[i].is_significant
        /\ ~\E k \in 1..Len(current_skills) :
               SameIgnoringCase(hvs[i].skill_name, current_skills[k])}

SkillsOf(category) == {category[i].skill_name : i \in 1..Len(category)}

\* C28: of the four talent-gap categories only emerging_opportunities and
\* undervalued_gems can share a skill, and they share exactly the significant
\* skills with 10 <= demand < 15 and premium > 20; every other two categories
\* are disjoint.
Thm_C28_OnlyEmergingAndUndervaluedOverlap ==
    last.op = "talent_gap" =>
        LET critical == SkillsOf(last.out.critical_skills)
            emerging == SkillsOf(last.out.emerging_opportunities)
            oversupplied == SkillsOf(last.out.oversupplied_skills)
            undervalued == SkillsOf(last.out.undervalued_gems)
        IN  /\ critical \cap emerging = {}
            /\ critical \cap oversupplied = {}
            /\ critical \cap undervalued = {}
            /\ emerging \cap oversupplied = {}
            /\ oversupplied \cap undervalued = {}
            /\ \A i \in 1..Len(hvs) :
                   LET dem == hvs[i].demand_percentage
                       prem == hvs[i].premium_percentage
                   IN  hvs[i].skill_name \in emerging \cap undervalued
                         <=> /\ hvs[i].is_significant
                             /\ IsNum(dem) /\ ~Below(dem, 10) /\ Below(dem, 15)
                             /\ Above(prem, 20)

Wit_C28_SkillBothEmergingAndUndervalued ==
    /\ last.op = "talent_gap"
    /\ Len(hvs) = 1
    /\ hvs[1].demand_percentage = Int2F(10)
    /\ Len(last.out.emerging_opportunities) = 1
    /\ Len(last.out.undervalued_gems) = 1
    /\ last.out.critical_skills = <<>>


\* The rows of the result for the pair of columns c1, c2.
PairRows(c1, c2) ==
    {k \in 1..Len(OutRows) :
        OutRows[k].skill_1 = SkillName(c1) /\ OutRows[k].skill_2 = SkillName(c2)}

\* Two skill columns with the same entry in every row.
IdenticalColumns(d, c1, c2) ==
    \A i \in 1..Len(d.rows) : d.rows[i].skill[c1] = d.rows[i].skill[c2]

\* C25: every co-occurrence pair is Strong when its correlation is at least
\* 0.6 and Moderate otherwise; two skills with identical columns of nonzero
\* variance have correlation 1.0 and are a Strong pair.
Thm_C25_StrongFromSixTenths ==
    (CooccurrenceCall /\ last.out.status = "ok") =>
        \A ij \in ColumnPairs(df) :
            LET c1 == df.columns[ij[1]]
                c2 == df.columns[ij[2]]
            IN  /\ \A k \in PairRows(c1, c2) :
                       OutRows[k].strength =
                           (IF CorrAtLeast(df, c1, c2, Rat(6, 10))
                            THEN "Strong" ELSE "Moderate")
                /\ (IdenticalColumns(df, c1, c2) /\ ~ZeroVariance(df, c1)) =>
                       /\ PairRows(c1, c2) # {}
                       /\ \A k \in PairRows(c1, c2) :
                              /\ OutRows[k].correlation = Int2F(1)
                              /\ OutRows[k].strength = "Strong"

Wit_C25_ModeratePairBelowSixTenths ==
    /\ CooccurrenceCall /\ last.out.status = "ok"
    /\ df.columns = <<"skill_python", "skill_sql">>
    /\ Len(df.rows) = 4
    /\ CorrAtLeast(df, "skill_python", "skill_sql", Rat(3, 10))
    /\ ~CorrAtLeast(df, "skill_python", "skill_sql", Rat(6, 10))
    /\ Len(OutRows) = 1
    /\ OutRows[1].strength = "Moderate"


\* The orders of processing that exchange two skills of the list.
ProcessingOrders(skill_columns) ==
    {[i \in 1..Len(skill_columns) |->
         IF i = a THEN skill_columns[b]
         ELSE IF i = b THEN skill_columns[a]
         ELSE skill_columns[i]] :
        a \in 1..Len(skill_columns), b \in 1..Len(skill_columns)}

Thm_C26_EachPairOnceByCorrelation ==
    (CooccurrenceCall /\ last.out.status = "ok") =>
        /\ \A k \in 1..Len(OutRows) :
               /\ OutRows[k].skill_1 # OutRows[k].skill_2
               /\ PlaceIn(df.columns, OutRows[k].skill_1)
                    < PlaceIn(df.columns, OutRows[k].skill_2)
        /\ \A k, l \in 1..Len(OutRows) :
               k # l => {OutRows[k].skill_1, OutRows[k].skill_2}
                          # {OutRows[l].skill_1, OutRows[l].skill_2}
        /\ \A k, l \in 1..Len(OutRows) :
               k < l => GeF(OutRows[k].correlation, OutRows[l].correlation)

Wit_C26_ThreePairsReordered ==
    /\ CooccurrenceCall /\ last.out.status = "ok"
    /\ Len(OutRows) = 3
    /\ OutRows[3].skill_1 = "Python" /\ OutRows[3].skill_2 = "Sql"
    /\ GtF(OutRows[1].correlation, OutRows[3].correlation)


\* The places of the failed entries in an execution log.
FailedEntries(log) == {k \in 1..Len(log) : ~log[k].success}

\* C29: during and after run_pipeline the log holds one entry for each of the
\* first notebooks of the configuration, in that order; successful + failed
\* is the number of entries, which is at most total_notebooks; with
\* stop_on_error at most one entry is a failed one, and it is the last, and
\* nothing is executed after it; a report returned without stop_on_error has
\* total_notebooks entries.
Thm_C29_LogFollowsConfigurationAndStops ==
    orchestrator.pc \in {"loop", "report", "done"} =>
        LET log == orchestrator.execution_log
            config == orchestrator.pipeline_config
        IN  /\ Len(log) <= Len(config)
            /\ Len(log) = orchestrator.idx
            /\ \A k \in 1..Len(log) :
                   log[k].notebook = config[k].notebook /\ log[k].index = k
            /\ orchestrator.successful
                 = Cardinality((1..Len(log)) \ FailedEntries(log))
            /\ orchestrator.failed = Cardinality(FailedEntries(log))
            /\ orchestrator.successful + orchestrator.failed = Len(log)
            /\ Len(log) <= orchestrator.total_notebooks
            /\ orchestrator.total_notebooks = Len(config)
            /\ orchestrator.stop_on_error =>
                   /\ Cardinality(FailedEntries(log)) <= 1
                   /\ FailedEntries(log) \subseteq {Len(log)}
                   /\ (FailedEntries(log) # {}) => orchestrator.pc # "loop"
            /\ orchestrator.pc = "done" =>
                   /\ orchestrator.report.execution_log = log
                   /\ orchestrator.report.successful + orchestrator.report.failed
                        = Len(log)
                   /\ orchestrator.report.total_notebooks = Len(config)
                   /\ ~orchestrator.stop_on_error =>
                          Len(log) = orchestrator.report.total_notebooks

Wit_C29_StoppedAtSecondOfThree ==
    /\ orchestrator.pc = "done"
    /\ orchestrator.stop_on_error
    /\ Len(orchestrator.pipeline_config) = 3
    /\ Len(orchestrator.report.execution_log) = 2
    /\ orchestrator.report.successful = 1
    /\ orchestrator.report.failed = 1


\* C30 as claimed: load_checkpoint(name, load_metadata=True) returns the data
\* of the most recent save_checkpoint of the name and the metadata of that
\* save as json gives it back, empty if that save passed none.
Cex_C30_LoadReturnsMostRecentSave ==
    (last.op = "load_checkpoint" /\ last.out.status = "ok" /\ last.args[2]) =>
        LET save == recent[last.args[1]]
        IN  /\ save.saved
            /\ last.out.data = save.data
            /\ last.out.metadata =
                   (IF save.metadata.given
                    THEN JsonRoundTrip(save.metadata.dict) ELSE {})

=============================================================================
